---- MODULE Spec2Model ----
(***************************************************************************)
(* Model of catkin_tools/metadata.py: the per-workspace metadata directory *)
(* (.catkin_tools), its README and its per-verb YAML documents.            *)
(*                                                                         *)
(* A path string is a sequence of tokens: the separator "/" or a file name.*)
(* The filesystem is a set of directories and a map of files, both keyed   *)
(* by the resolved path (the sequence of names from the root).  A Python   *)
(* dict with string keys is a function from keys to integers.              *)
(***************************************************************************)
EXTENDS Naturals, Sequences, FiniteSets, TLC

VARIABLES dirs, files, last

vars == <<dirs, files, last>>

----------------------------------------------------------------------------
(* Bounds of the checked instance *)

\* depth of the chain of user directories /, /d1, /d1/d2, ...
MaxDepth == 1

----------------------------------------------------------------------------
(* Constants of the program and of the checked instance *)

SEP == "/"
METADATA_DIR_NAME == ".catkin_tools"
METADATA_README_TEXT == <<<<"# Catkin Tools Metadata">>>>
README == "README"

DirNames == <<"d1", "d2", "d3", "d4">>
Missing == "missing"
Verbs == {"build", "config"}
KeyOrder == <<"a", "b">>
Keys == {KeyOrder[i] : i \in 1..Len(KeyOrder)}
IntText == <<"1", "2", "3", "4", "5">>

EmptyMap == <<>>
Single(k, x) == [j \in {k} |-> x]

\* the directories that exist before any call: /, /d1, /d1/d2, ...
UserDirs == {SubSeq(DirNames, 1, n) : n \in 0..MaxDepth}

\* the path string of a resolved path, with or without a trailing separator
RECURSIVE Abs(_)
Abs(c) == IF c = <<>> THEN <<>> ELSE <<SEP, Head(c)>> \o Abs(Tail(c))
PathStr(c, trail) ==
    IF c = <<>> THEN <<SEP>> ELSE IF trail THEN Abs(c) \o <<SEP>> ELSE Abs(c)

\* the workspace_path arguments tried: every user directory and one path
\* that does not exist, each with and without a trailing separator
Paths == {PathStr(c, t) : c \in UserDirs \cup {<<Missing>>}, t \in BOOLEAN}

\* the new_data arguments tried
NewData == {Single("a", 1), Single("b", 2)}

----------------------------------------------------------------------------
(* os.path and the filesystem *)

\* posixpath.join(a, b)
Join(a, b) ==
    IF b # <<>> /\ Head(b) = SEP THEN b
    ELSE IF a = <<>> \/ a[Len(a)] = SEP THEN a \o b
    ELSE a \o <<SEP>> \o b

RECURSIVE RStrip(_)
RStrip(p) ==
    IF p # <<>> /\ p[Len(p)] = SEP THEN RStrip(SubSeq(p, 1, Len(p) - 1)) ELSE p

\* posixpath.split(p): <<head, tail>>
Split(p) ==
    LET seps == {j \in 1..Len(p) : p[j] = SEP}
        i == IF seps = {} THEN 0 ELSE CHOOSE j \in seps : \A k \in seps : k <= j
        head == SubSeq(p, 1, i)
        tail == SubSeq(p, i + 1, Len(p))
    IN  IF head # <<>> /\ RStrip(head) # <<>>
        THEN <<RStrip(head), tail>>
        ELSE <<head, tail>>

\* the file or directory an absolute path string names
Resolve(p) == SelectSeq(p, LAMBDA t : t # SEP)

IsPrefix(r, q) == Len(r) <= Len(q) /\ SubSeq(q, 1, Len(r)) = r

FS == [dirs |-> dirs, files |-> files]

Exists(f, p) ==
    LET r == Resolve(p) IN p # <<>> /\ (r \in f.dirs \/ r \in DOMAIN f.files)
IsDir(f, p) == p # <<>> /\ Resolve(p) \in f.dirs

Mkdir(f, p) == [f EXCEPT !.dirs = f.dirs \cup {Resolve(p)}]

Rmtree(f, p) ==
    LET r == Resolve(p)
        keep == {q \in DOMAIN f.files : ~IsPrefix(r, q)}
    IN  [dirs |-> {d \in f.dirs : ~IsPrefix(r, d)},
         files |-> [q \in keep |-> f.files[q]]]

WriteFile(f, p, text) ==
    LET r == Resolve(p)
    IN  [f EXCEPT !.files = [q \in DOMAIN f.files \cup {r} |->
                                IF q = r THEN text ELSE f.files[q]]]

----------------------------------------------------------------------------
(* yaml *)

Str(n) == IntText[n]
Int(s) == CHOOSE n \in 1..Len(IntText) : IntText[n] = s

\* yaml.dump(data, default_flow_style=False): one "key: value" line per key,
\* keys sorted; the empty dict is written in flow style
RECURSIVE DumpFrom(_, _)
DumpFrom(data, i) ==
    IF i > Len(KeyOrder) THEN <<>>
    ELSE IF KeyOrder[i] \in DOMAIN data
         THEN <<<<KeyOrder[i], ": ", Str(data[KeyOrder[i]])>>>> \o DumpFrom(data, i + 1)
         ELSE DumpFrom(data, i + 1)
YamlDump(data) == IF DOMAIN data = {} THEN <<<<"{}">>>> ELSE DumpFrom(data, 1)

\* yaml.load(text)
YamlLoad(text) ==
    IF text = <<<<"{}">>>> \/ text = <<>> THEN EmptyMap
    ELSE [k \in {text[i][1] : i \in 1..Len(text)} |->
            Int(text[CHOOSE i \in 1..Len(text) : text[i][1] = k][3])]

----------------------------------------------------------------------------
(* The functions of metadata.py, as functions of the filesystem *)

YmlName(verb) == CASE verb = "build" -> "build.yml" [] verb = "config" -> "config.yml"

\* get_paths(workspace_path, verb): <<metadata_dir, metadata_file_path>>
get_paths(workspace_path, verb) ==
    LET metadata_dir == Join(workspace_path, <<METADATA_DIR_NAME>>)
    IN  <<metadata_dir,
          IF verb # "" THEN Join(metadata_dir, <<YmlName(verb)>>) ELSE <<>> >>

NotFound == [found |-> FALSE, path |-> <<>>]

\* find_enclosing_workspace(search_start_path)
RECURSIVE find_enclosing_workspace(_, _)
find_enclosing_workspace(f, search_start_path) ==
    LET candidate_path == get_paths(search_start_path, "")[1]
        sp == Split(search_start_path)
    IN  IF Exists(f, candidate_path) /\ IsDir(f, candidate_path)
        THEN [found |-> TRUE, path |-> search_start_path]
        ELSE IF Len(sp[2]) = 0 THEN NotFound
        ELSE find_enclosing_workspace(f, sp[1])

\* init_metadata_dir with the existence check of workspace_path left out
init_metadata_dir_NoExistCheck(f, workspace_path, reset) ==
    LET marked_workspace == find_enclosing_workspace(f, workspace_path)
        metadata_dir == get_paths(workspace_path, "")[1]
        made == IF Exists(f, metadata_dir)
                THEN IF reset THEN Mkdir(Rmtree(f, metadata_dir), metadata_dir) ELSE f
                ELSE Mkdir(f, metadata_dir)
    IN  IF marked_workspace.found /\ marked_workspace.path # workspace_path
        THEN [out |-> "IOError: contained in another workspace", fs |-> f]
        ELSE [out |-> "ok",
              fs |-> WriteFile(made, Join(metadata_dir, <<README>>), METADATA_README_TEXT)]

\* init_metadata_dir that never removes an existing metadata directory
init_metadata_dir_NoRmtree(f, workspace_path, reset) ==
    LET marked_workspace == find_enclosing_workspace(f, workspace_path)
        metadata_dir == get_paths(workspace_path, "")[1]
        made == IF Exists(f, metadata_dir) THEN f ELSE Mkdir(f, metadata_dir)
    IN  IF ~Exists(f, workspace_path)
        THEN [out |-> "IOError: does not exist", fs |-> f]
        ELSE IF marked_workspace.found /\ marked_workspace.path # workspace_path
        THEN [out |-> "IOError: contained in another workspace", fs |-> f]
        ELSE [out |-> "ok",
              fs |-> WriteFile(made, Join(metadata_dir, <<README>>), METADATA_README_TEXT)]

\* init_metadata_dir that writes the README only into a directory it made
init_metadata_dir_NoReadme(f, workspace_path, reset) ==
    LET marked_workspace == find_enclosing_workspace(f, workspace_path)
        metadata_dir == get_paths(workspace_path, "")[1]
        made == IF Exists(f, metadata_dir)
                THEN IF reset THEN Mkdir(Rmtree(f, metadata_dir), metadata_dir) ELSE f
                ELSE WriteFile(Mkdir(f, metadata_dir), Join(metadata_dir, <<README>>),
                               METADATA_README_TEXT)
    IN  IF ~Exists(f, workspace_path)
        THEN [out |-> "IOError: does not exist", fs |-> f]
        ELSE IF marked_workspace.found /\ marked_workspace.path # workspace_path
        THEN [out |-> "IOError: contained in another workspace", fs |-> f]
        ELSE [out |-> "ok", fs |-> made]

\* init_metadata_dir that resets an existing metadata directory whatever
\* the value of reset
init_metadata_dir_AlwaysResets(f, workspace_path, reset) ==
    LET marked_workspace == find_enclosing_workspace(f, workspace_path)
        metadata_dir == get_paths(workspace_path, "")[1]
        made == IF Exists(f, metadata_dir)
                THEN Mkdir(Rmtree(f, metadata_dir), metadata_dir)
                ELSE Mkdir(f, metadata_dir)
    IN  IF ~Exists(f, workspace_path)
        THEN [out |-> "IOError: does not exist", fs |-> f]
        ELSE IF marked_workspace.found /\ marked_workspace.path # workspace_path
        THEN [out |-> "IOError: contained in another workspace", fs |-> f]
        ELSE [out |-> "ok",
              fs |-> WriteFile(made, Join(metadata_dir, <<README>>), METADATA_README_TEXT)]

\* init_metadata_dir(workspace_path, reset): the outcome and the filesystem
\* it leaves
init_metadata_dir(f, workspace_path, reset) ==
    LET marked_workspace == find_enclosing_workspace(f, workspace_path)
        metadata_dir == get_paths(workspace_path, "")[1]
        made == IF Exists(f, metadata_dir)
                THEN IF reset THEN Mkdir(Rmtree(f, metadata_dir), metadata_dir) ELSE f
                ELSE Mkdir(f, metadata_dir)
    IN  IF ~Exists(f, workspace_path)
        THEN [out |-> "IOError: does not exist", fs |-> f]
        ELSE IF marked_workspace.found /\ marked_workspace.path # workspace_path
        THEN [out |-> "IOError: contained in another workspace", fs |-> f]
        ELSE [out |-> "ok",
              fs |-> WriteFile(made, Join(metadata_dir, <<README>>), METADATA_README_TEXT)]

\* get_metadata(workspace_path, verb)
get_metadata(f, workspace_path, verb) ==
    LET metadata_file_path == get_paths(workspace_path, verb)[2]
    IN  IF ~Exists(f, metadata_file_path) THEN EmptyMap
        ELSE YamlLoad(f.files[Resolve(metadata_file_path)])

\* dict.update: data.update(new_data)
DictUpdate(data, new_data) ==
    [k \in DOMAIN data \cup DOMAIN new_data |->
        IF k \in DOMAIN new_data THEN new_data[k] ELSE data[k]]

\* update_metadata with data.update(new_data) left out
update_metadata_SkipsUpdate(f, workspace_path, verb, new_data) ==
    LET paths == get_paths(workspace_path, verb)
        metadata_dir == paths[1]
        metadata_file_path == paths[2]
        inited == init_metadata_dir(f, workspace_path, FALSE)
        data == get_metadata(inited.fs, metadata_dir, verb)
    IN  IF inited.out # "ok" THEN inited
        ELSE [out |-> "ok",
              fs |-> WriteFile(inited.fs, metadata_file_path, YamlDump(data))]

\* update_metadata(workspace_path, verb, new_data): the outcome and the
\* filesystem it leaves
update_metadata(f, workspace_path, verb, new_data) ==
    LET paths == get_paths(workspace_path, verb)
        metadata_dir == paths[1]
        metadata_file_path == paths[2]
        inited == init_metadata_dir(f, workspace_path, FALSE)
        data == get_metadata(inited.fs, metadata_dir, verb)
    IN  IF inited.out # "ok" THEN inited
        ELSE [out |-> "ok",
              fs |-> WriteFile(inited.fs, metadata_file_path,
                               YamlDump(DictUpdate(data, new_data)))]

----------------------------------------------------------------------------
(* The calls *)

\* what a call finds under workspace_path before it acts: whether the
\* metadata directory is there, and the verbs that have a document
Before(f, p) ==
    LET m == Resolve(p) \o <<METADATA_DIR_NAME>>
    IN  [ws |-> m \in f.dirs,
         had |-> {v \in Verbs : m \o <<YmlName(v)>> \in DOMAIN f.files}]

\* the record of the last call: its arguments, what it found (pre), its
\* outcome (out) and its return value (found, ws for find; doc for get)
NoCall == [op |-> "none", path |-> <<>>, verb |-> "", data |-> EmptyMap,
           reset |-> FALSE, pre |-> [ws |-> FALSE, had |-> {}],
           out |-> "", found |-> FALSE, ws |-> <<>>, doc |-> EmptyMap]

Init ==
    /\ dirs = UserDirs
    /\ files = <<>>
    /\ last = NoCall

CallFind(p) ==
    \E r \in {find_enclosing_workspace(FS, p)} :
        /\ last' = [NoCall EXCEPT !.op = "find", !.path = p, !.out = "ok",
                                  !.found = r.found, !.ws = r.path]
        /\ UNCHANGED <<dirs, files>>

CallInit(p, reset) ==
    \E r \in {init_metadata_dir(FS, p, reset)} :
        /\ dirs' = r.fs.dirs
        /\ files' = r.fs.files
        /\ last' = [NoCall EXCEPT !.op = "init", !.path = p, !.reset = reset,
                                  !.pre = Before(FS, p), !.out = r.out]

\* a get_metadata call that first makes sure the metadata directory exists
CallGet_EnsuresDir(p, v) ==
    \E r \in {init_metadata_dir(FS, p, FALSE)} :
        /\ dirs' = r.fs.dirs
        /\ files' = r.fs.files
        /\ last' = [NoCall EXCEPT !.op = "get", !.path = p, !.verb = v, !.out = "ok",
                                  !.doc = get_metadata(r.fs, p, v)]

CallGet(p, v) ==
    /\ last' = [NoCall EXCEPT !.op = "get", !.path = p, !.verb = v, !.out = "ok",
                              !.doc = get_metadata(FS, p, v)]
    /\ UNCHANGED <<dirs, files>>

CallUpdate(p, v, d) ==
    \E r \in {update_metadata(FS, p, v, d)} :
        /\ dirs' = r.fs.dirs
        /\ files' = r.fs.files
        /\ last' = [NoCall EXCEPT !.op = "update", !.path = p, !.verb = v,
                                  !.data = d, !.pre = Before(FS, p),
                                  !.out = r.out]

Next ==
    \/ \E p \in Paths : CallFind(p)
    \/ \E p \in Paths, reset \in BOOLEAN : CallInit(p, reset)
    \/ \E p \in Paths, v \in Verbs : CallGet(p, v)
    \/ \E p \in Paths, v \in Verbs, d \in NewData : CallUpdate(p, v, d)

Spec == Init /\ [][Next]_vars

----------------------------------------------------------------------------
(* Vocabulary of the properties *)

NotExist == "IOError: does not exist"
Nested == "IOError: contained in another workspace"

Succeeded(l, ops) == l.op \in ops /\ l.out = "ok"

\* the directory c is a workspace: the metadata directory is directly under it
IsWorkspace(f, c) == c \o <<METADATA_DIR_NAME>> \in f.dirs
Workspaces(f) == {c \in UserDirs : IsWorkspace(f, c)}
StrictAncestors(c) == {SubSeq(c, 1, n) : n \in 0..(Len(c) - 1)}
AncestorsOrSelf(c) == StrictAncestors(c) \cup {c}
Closest(S) == CHOOSE c \in S : \A e \in S : Len(e) <= Len(c)

\* the verb documents on disk
VerbFiles(f) ==
    {q \in DOMAIN f.files : \E v \in Verbs : q[Len(q)] = YmlName(v)}
\* the document of verb v stored in the workspace directory c
HasDoc(f, c, v) == c \o <<METADATA_DIR_NAME, YmlName(v)>> \in DOMAIN f.files

----------------------------------------------------------------------------
(* C1 *)

\* C1: a successful update_metadata(w, v, d) merges d into the document
\* stored for v: afterwards get_metadata(w, v) is the stored document with
\* every key of d overwritten, so keys absent from d are kept.
C1_ShallowMerge ==
    [][Succeeded(last', {"update"}) =>
          get_metadata(FS', last'.path, last'.verb)
            = DictUpdate(get_metadata(FS, last'.path, last'.verb), last'.data)]_vars

----------------------------------------------------------------------------
(* C2 *)

\* C2: no workspace is ever a strict descendant of another workspace.
C2_NoNestedWorkspace ==
    \A c \in Workspaces(FS) : \A a \in StrictAncestors(c) : ~IsWorkspace(FS, a)

----------------------------------------------------------------------------
(* C3 *)

\* C3: after a successful update_metadata(w, v, d), get_metadata(w, v) maps
\* every key of d to d's value, and equals d when v had no document before.
C3_RoundTrip ==
    Succeeded(last, {"update"}) =>
        LET m == get_metadata(FS, last.path, last.verb)
        IN  /\ \A k \in DOMAIN last.data : k \in DOMAIN m /\ m[k] = last.data[k]
            /\ last.verb \notin last.pre.had => m = last.data

\* an update of a verb that has no document yet, in a workspace that
\* already holds the other verb's document
C3_Witness ==
    /\ Succeeded(last, {"update"})
    /\ last.pre.ws /\ last.pre.had # {} /\ last.verb \notin last.pre.had
    /\ get_metadata(FS, last.path, last.verb) = last.data
    /\ DOMAIN last.data # {}

----------------------------------------------------------------------------
(* C4 *)

\* C4: find_enclosing_workspace(p) returns the closest ancestor-or-self of p
\* that is a workspace, and None exactly when there is none, for p with or
\* without a trailing separator.
C4_FindClosest ==
    last.op = "find" =>
        LET S == {c \in AncestorsOrSelf(Resolve(last.path)) : IsWorkspace(FS, c)}
        IN  /\ last.found <=> S # {}
            /\ last.found => Resolve(last.ws) = Closest(S)

----------------------------------------------------------------------------
(* C5 *)

\* C5: init_metadata_dir(p, reset) and update_metadata(p, v, d) on an
\* existing path p that is not a workspace and has a workspace among its
\* strict ancestors fail with the nested-workspace error and change nothing.
C5_NestedRejected ==
    [][(/\ last'.op \in {"init", "update"}
        /\ Exists(FS, last'.path)
        /\ ~IsWorkspace(FS, Resolve(last'.path))
        /\ \E a \in StrictAncestors(Resolve(last'.path)) : IsWorkspace(FS, a))
       => (last'.out = Nested /\ dirs' = dirs /\ files' = files)]_vars

----------------------------------------------------------------------------
(* C6 *)

\* C6: init_metadata_dir(p, reset) and update_metadata(p, v, d) on a path p
\* that does not exist fail with the not-found error and change nothing.
C6_MissingRejected ==
    [][(last'.op \in {"init", "update"} /\ ~Exists(FS, last'.path))
       => (last'.out = NotExist /\ dirs' = dirs /\ files' = files)]_vars

\* an update of a missing path has failed while a workspace with a document
\* exists elsewhere
C6_Witness ==
    /\ last.op = "update" /\ last.out = NotExist
    /\ ~Exists(FS, last.path)
    /\ VerbFiles(FS) # {}

----------------------------------------------------------------------------
(* C7 *)

\* C7: after a successful init_metadata_dir(w, reset=True) the metadata
\* directory of w exists and holds no verb document: get_metadata(w, v) is
\* the empty mapping for every verb v.
C7_ResetClears ==
    (Succeeded(last, {"init"}) /\ last.reset) =>
        /\ IsDir(FS, get_paths(last.path, "")[1])
        /\ \A v \in Verbs :
              /\ ~Exists(FS, get_paths(last.path, v)[2])
              /\ get_metadata(FS, last.path, v) = EmptyMap

\* a reset of a workspace that held a document for every verb
C7_Witness ==
    /\ Succeeded(last, {"init"}) /\ last.reset
    /\ last.pre.ws /\ last.pre.had = Verbs

----------------------------------------------------------------------------
(* C8 *)

\* C8: after a successful init_metadata_dir(w, reset) or
\* update_metadata(w, v, d), the metadata directory exists directly under w
\* and holds a README with the fixed, non-empty text.
C8_WorkspaceAfterSuccess ==
    Succeeded(last, {"init", "update"}) =>
        LET readme == Resolve(last.path) \o <<METADATA_DIR_NAME, README>>
        IN  /\ IsWorkspace(FS, Resolve(last.path))
            /\ readme \in DOMAIN files
            /\ files[readme] = METADATA_README_TEXT
            /\ files[readme] # <<>>

\* an update has succeeded on a path that was not a workspace before
C8_Witness ==
    /\ Succeeded(last, {"update"})
    /\ ~last.pre.ws
    /\ IsWorkspace(FS, Resolve(last.path))

----------------------------------------------------------------------------
(* C9 *)

\* C9: get_metadata(w, v) changes nothing on the filesystem, and returns the
\* empty mapping whenever the verb file of v under w does not exist.
C9_GetAbsentIsEmpty ==
    [][last'.op = "get" =>
          /\ dirs' = dirs /\ files' = files
          /\ last'.out = "ok"
          /\ ~HasDoc(FS, Resolve(last'.path), last'.verb) => last'.doc = EmptyMap]_vars

\* a get of a verb without a document, on a path that is no workspace
\* while another workspace holds a document
C9_Witness ==
    /\ last.op = "get" /\ last.doc = EmptyMap
    /\ Exists(FS, last.path)
    /\ ~IsWorkspace(FS, Resolve(last.path))
    /\ VerbFiles(FS) # {}

----------------------------------------------------------------------------
(* C10 *)

\* C10: a verb document is created or rewritten only by a successful
\* update_metadata of its workspace and verb, and removed only by a
\* successful init_metadata_dir(reset=True) of its workspace, which removes
\* every document of that workspace.
C10_Frame ==
    [][\A q \in VerbFiles(FS) \cup VerbFiles(FS') :
          LET m == Resolve(last'.path) \o <<METADATA_DIR_NAME>>
          IN  /\ (q \in DOMAIN files' /\ (q \in DOMAIN files => files'[q] # files[q]))
                 => (Succeeded(last', {"update"}) /\ q = m \o <<YmlName(last'.verb)>>)
              /\ q \notin DOMAIN files'
                 => /\ Succeeded(last', {"init"}) /\ last'.reset
                    /\ IsPrefix(m, q)
                    /\ \A e \in VerbFiles(FS) : IsPrefix(m, e) => e \notin DOMAIN files'
    ]_vars

\* init_metadata_dir(w, reset=False) has succeeded on a workspace that holds
\* a document for every verb, next to another workspace with a document
C10_Witness ==
    /\ Succeeded(last, {"init"}) /\ ~last.reset
    /\ last.pre.ws /\ last.pre.had = Verbs
    /\ \A v \in Verbs : HasDoc(FS, Resolve(last.path), v)
    /\ \E q \in VerbFiles(FS) :
          ~IsPrefix(Resolve(last.path) \o <<METADATA_DIR_NAME>>, q)

====
